---------------------------- MODULE Spec2Model ----------------------------
(***************************************************************************)
(* Loan lifecycle orchestrator of backend-peminjam (src/main.go).          *)
(*                                                                         *)
(* The external ledger (one spreadsheet, three regions) is the shared      *)
(* state.  Every HTTP request runs in its own goroutine (net/http), and    *)
(* Submit and Return continue in a detached goroutine after the            *)
(* acknowledgment, so the steps of different requests interleave at every  *)
(* external call.  Each request of a behaviour occupies its own slot of    *)
(* `task`.                                                                 *)
(*                                                                         *)
(* Every text is a sequence of characters (one-character strings), << >>   *)
(* being the empty text and the content of an empty cell.  A text that the *)
(* code only copies is a sequence of one opaque symbol.                    *)
(***************************************************************************)
EXTENDS Integers, Sequences, FiniteSets, TLC

---------------------------------------------------------------------------
(* Bounds of the model *)

\* requests of one behaviour, all of which may be in flight at once
MaxReq == 2

\* distinct calendar days the clock passes through
MaxDay == 2

\* LoanRecord rows the ledger may hold when the server starts
MaxSeedLoans == 1

\* ApprovalRecord rows the ledger may hold when the server starts
MaxSeedApprovals == 2

Procs == 1 .. MaxReq

---------------------------------------------------------------------------
(* Inputs *)

\* borrower names of a Submit request (r.FormValue("nama"))
Names == {<< >>, <<"ann">>}

\* phone fields of a Submit request (r.FormValue("noWa"))
Phones == {<< >>, <<"0", "8">>}

\* identifiers of an Approve or Return request
IdInputs == {<< >>, <<"1">>, <<"0", "0", "0", "1">>, <<"2">>}

\* approver names of an Approve request
Approvers == {<< >>, <<"pak">>}

\* approver names when more than one person approves
ApproverNames == {<<"pak">>, <<"bu">>}

\* decisions of an Approve request
Decisions == {<< >>, <<"Approved">>, <<"Rejected">>}

\* quantity fields of a Submit request (r.FormValue("jumlahAlat"))
Quantities == {<< >>, <<"0">>, <<"3">>, <<"-", "3">>, <<"a">>}

\* r.Method of a request to /pengembalian
Methods == {"POST", "OPTIONS", "GET"}

---------------------------------------------------------------------------
(* Text helpers *)

DigitChars == <<"0", "1", "2", "3", "4", "5", "6", "7", "8", "9">>

IsDigit(c) == \E i \in 1 .. 10 : DigitChars[i] = c

DigitVal(c) == (CHOOSE i \in 1 .. 10 : DigitChars[i] = c) - 1

\* strings.TrimLeft(s, "0")
RECURSIVE TrimLeftZero(_)
TrimLeftZero(s) ==
    IF s = << >> THEN << >>
    ELSE IF Head(s) = "0" THEN TrimLeftZero(Tail(s))
    ELSE s

\* decimal digits of n >= 0, most significant first (fmt "%d")
RECURSIVE Itoa(_)
Itoa(n) ==
    IF n < 10 THEN << DigitChars[n + 1] >>
    ELSE Append(Itoa(n \div 10), DigitChars[(n % 10) + 1])

RECURSIVE PadZero(_, _)
PadZero(s, w) == IF Len(s) >= w THEN s ELSE PadZero(<<"0">> \o s, w)

\* fmt.Sprintf("%04d", n) for n >= 0
Fmt04(n) == PadZero(Itoa(n), 4)

RECURSIVE DecVal(_, _)
DecVal(s, acc) ==
    IF s = << >> THEN acc ELSE DecVal(Tail(s), acc * 10 + DigitVal(Head(s)))

\* strconv.Atoi on unsigned text: ok is FALSE for "" and for non-digits
Atoi(s) ==
    IF s # << >> /\ \A i \in 1 .. Len(s) : IsDigit(s[i])
    THEN [ok |-> TRUE, val |-> DecVal(s, 0)]
    ELSE [ok |-> FALSE, val |-> 0]

\* strconv.Atoi: an optional sign, then decimal digits; val is 0 when !ok
AtoiSigned(s) ==
    LET signed == s # << >> /\ Head(s) \in {"+", "-"}
        digits == Atoi(IF signed THEN Tail(s) ELSE s)
    IN  IF ~digits.ok THEN [ok |-> FALSE, val |-> 0]
        ELSE [ok |-> TRUE,
              val |-> IF signed /\ Head(s) = "-" THEN 0 - digits.val ELSE digits.val]

\* fmt "%d" of an int, which is also how the ledger shows a number cell
FmtInt(n) == IF n < 0 THEN <<"-">> \o Itoa(0 - n) ELSE Itoa(n)

HasPrefix(s, p) == Len(s) >= Len(p) /\ SubSeq(s, 1, Len(p)) = p

IsSpace(c) == c \in {" ", "\t", "\n", "\r"}

RECURSIVE TrimSpaceLeft(_)
TrimSpaceLeft(s) ==
    IF s # << >> /\ IsSpace(Head(s)) THEN TrimSpaceLeft(Tail(s)) ELSE s

RECURSIVE TrimSpaceRight(_)
TrimSpaceRight(s) ==
    IF s # << >> /\ IsSpace(s[Len(s)])
    THEN TrimSpaceRight(SubSeq(s, 1, Len(s) - 1))
    ELSE s

\* strings.TrimSpace
TrimSpace(s) == TrimSpaceRight(TrimSpaceLeft(s))

\* strings.ReplaceAll(s, c, "") for the separators " ", "-", "(", ")"
RECURSIVE DropSeparators(_)
DropSeparators(s) ==
    IF s = << >> THEN << >>
    ELSE IF Head(s) \in {" ", "-", "(", ")"} THEN DropSeparators(Tail(s))
    ELSE <<Head(s)>> \o DropSeparators(Tail(s))

\* a slip in the cleaning: surrounding white space is kept
normalizePhoneNumberUntrimmed(no) ==
    LET n == DropSeparators(no) IN
    IF HasPrefix(n, <<"+">>) THEN <<"6", "2">> \o Tail(n)
    ELSE IF HasPrefix(n, <<"0">>) THEN <<"6", "2">> \o Tail(n)
    ELSE IF HasPrefix(n, <<"6", "2">>) THEN n
    ELSE << >>

normalizePhoneNumber(no) ==
    LET n == DropSeparators(TrimSpace(no)) IN
    IF HasPrefix(n, <<"+">>) THEN <<"6", "2">> \o Tail(n)
    ELSE IF HasPrefix(n, <<"0">>) THEN <<"6", "2">> \o Tail(n)
    ELSE IF HasPrefix(n, <<"6", "2">>) THEN n
    ELSE << >>

\* the address test made before every submitter send
ValidAddress(no) ==
    LET n == normalizePhoneNumber(no) IN n # << >> /\ HasPrefix(n, <<"6", "2">>)

---------------------------------------------------------------------------
(* Texts that the requests of the model carry unchanged *)

Empty == << >>

\* uploadToDrive's retrieval URL of a stored photo
FotoURL == <<"u">>

\* the exported artifact's URL and the document's URL returned by a renderer
PdfURL == <<"p">>
DocURL == <<"g">>

\* remaining form fields of a Submit request, the same in every request
FormKelas == <<"k">>
FormNIS == <<"n">>
FormNamaAlat == <<"c">>
FormJumlah == <<"3">>
FormTanggalPinjam == <<"a">>
FormTanggalKembali == <<"b">>
FormKeterangan == <<"e">>
FormLama == <<"5">>

\* fields of a Return request, the same in every request
FormKondisi == <<"o">>
FormKeteranganPengembalian == <<"r">>

\* form.FotoPath of a Return whose photo upload failed
GagalUpload == <<"Gagal upload">>

\* time.Now().Format(...) on day d of the clock
DateText(d) == <<"d">> \o Itoa(d)

\* os.Getenv("APPROVER_NO") with its default
ApproverNo == <<"6", "2", "8">>

---------------------------------------------------------------------------
(* The ledger collaborator: Spreadsheets.Values.Get / Update *)

\* a stored row is the sequence of its cells up to the last non-empty one
RECURSIVE TrimRow(_)
TrimRow(r) ==
    IF r # << >> /\ r[Len(r)] = Empty THEN TrimRow(SubSeq(r, 1, Len(r) - 1))
    ELSE r

Cell(r, i) == IF i <= Len(r) THEN r[i] ELSE Empty

\* rows up to the last non-empty one
RECURSIVE TrimRows(_)
TrimRows(rs) ==
    IF rs # << >> /\ rs[Len(rs)] = << >> THEN TrimRows(SubSeq(rs, 1, Len(rs) - 1))
    ELSE rs

\* Values.Get of columns c1..c2 from the first data row down: every row cut
\* to the range and to its last non-empty cell, trailing empty rows left out
ReadRange(region, c1, c2) ==
    TrimRows([i \in 1 .. Len(region) |->
        TrimRow([j \in 1 .. (c2 - c1 + 1) |-> Cell(region[i], c1 + j - 1)])])

\* Values.Update at column c of data row n: the cells c .. c+Len(vals)-1 of
\* that row are overwritten, every other cell is kept
WriteCells(region, n, c, vals) ==
    LET old == IF n <= Len(region) THEN region[n] ELSE << >>
        width == IF Len(old) > c + Len(vals) - 1 THEN Len(old) ELSE c + Len(vals) - 1
        new == TrimRow([j \in 1 .. width |->
                   IF j >= c /\ j < c + Len(vals) THEN vals[j - c + 1]
                   ELSE Cell(old, j)])
        height == IF Len(region) > n THEN Len(region) ELSE n
    IN  [i \in 1 .. height |->
            IF i = n THEN new
            ELSE IF i <= Len(region) THEN region[i] ELSE << >>]

---------------------------------------------------------------------------
(* State *)

VARIABLES
    loan,       \* region "Form Peminjam", data rows from sheet row 5
    approval,   \* region "Approval Peminjaman", data rows from sheet row 6
    ret,        \* region "Form Pengembalian", data rows from sheet row 5
    today,      \* the day the wall clock shows
    task,       \* the request held by each slot
    probe       \* a direct call of a helper function: its argument and results

vars == <<loan, approval, ret, today, task, probe>>

\* no helper function is being called directly
NoProbe == [fn |-> "none"]

\* header offsets: data row n of a region lies at sheet row n + offset
LoanOffset == 4
ApprovalOffset == 5
ReturnOffset == 4

NoDoc == [kind |-> "none"]

\* no exported artifact of the request lies in uploads/
NoPath == << >>

\* filepath.Join("uploads", title + ".pdf"), the title being made of the
\* renderer's words, the number as %04d and the borrower name
ExportPath(words, nomorUrut, nama) ==
    <<"uploads/", words>> \o Fmt04(nomorUrut) \o <<" - ">> \o nama \o <<".pdf">>

NoForm == [Nama |-> Empty, NoWA |-> Empty, Keterangan |-> Empty,
           JumlahAlat |-> 0,
           FotoPath |-> Empty, PeminjamanFotoPath |-> Empty,
           ApprovalDate |-> Empty, ApprovalStatus |-> Empty,
           ApproverName |-> Empty]

IdleTask ==
    [kind |-> "none", pc |-> "idle",
     method |-> "POST",     \* r.Method, looked at by handlePengembalian only
     id |-> Empty, approver |-> Empty, decision |-> Empty,
     form |-> NoForm,
     fallbackNoWA |-> Empty, \* phone of the row that equals the identifier exactly
     staged |-> FALSE,      \* a file of this request lies in uploads/
     sheetLen |-> -1,       \* rows of the handler's own read, -1 when it has none
     found |-> FALSE,       \* a LoanRecord matched the identifier
     seen |-> -1,           \* rows the allocation read returned, -1 before it
     lrow |-> 0,            \* data row of the LoanRecord resolved, 0 when none
     row |-> 0,             \* ordinal allocated
     addr |-> 0,            \* sheet row of the write range
     doc |-> NoDoc,         \* document rendered for this request
     tmp |-> NoPath,        \* path of its exported artifact while in uploads/
     wrote |-> 0,           \* ledger writes completed by this request
     calls |-> 0,           \* ledger calls issued by this request
     sent |-> {},           \* notification sends attempted
     unsent |-> {},         \* attempted sends that kirimPesanWaBangkit failed
     errs |-> {},           \* failures this request logged
     resp |-> "none"]       \* what the caller received

\* the task dereferences a nil result: the panic ends the process
Crash(t, what) == [t EXCEPT !.pc = "crashed", !.errs = @ \cup {what}]

\* the process is alive: no task has panicked
Running == \A q \in Procs : task[q].pc # "crashed"

\* slots are taken in order
CanAccept(p) ==
    /\ Running
    /\ task[p].pc = "idle"
    /\ \A q \in Procs : q < p => task[q].pc # "idle"

Finish(t) == [t EXCEPT !.pc = "done"]

\* the request ends on a logged failure
Fail(t, what) == [t EXCEPT !.pc = "done", !.errs = @ \cup {what}]

\* the task in slot p stands at pc, in a process that is alive
At(p, pc) == Running /\ task[p].pc = pc

\* the wall clock passes midnight
Tick ==
    /\ today < MaxDay
    /\ today' = today + 1
    /\ UNCHANGED <<loan, approval, ret, task, probe>>

---------------------------------------------------------------------------
(* Submit: handlePinjam *)

\* the handler thread: form capture, photo staging, acknowledgment, and the
\* read of column B made before the task is started; the quantity field is
\* one of jumlahTexts
SubmitAccept(p, jumlahTexts) ==
    /\ CanAccept(p)
    /\ \E nama \in Names, noWA \in Phones, jumlahAlat \in jumlahTexts,
          foto \in BOOLEAN, svcOk \in BOOLEAN, readOk \in BOOLEAN :
         task' = [task EXCEPT ![p] =
            [IdleTask EXCEPT
                !.kind = "submit", !.pc = "s_task",
                !.form = [NoForm EXCEPT !.Nama = nama, !.NoWA = noWA,
                                        !.JumlahAlat = AtoiSigned(jumlahAlat).val,
                                        !.Keterangan = FormKeterangan],
                !.staged = foto,
                !.resp = "ack",
                !.calls = IF svcOk THEN 1 ELSE 0,
                !.sheetLen = IF svcOk /\ readOk
                             THEN Len(ReadRange(loan, 2, 2)) ELSE -1]]
    /\ UNCHANGED <<loan, approval, ret, today, probe>>

\* a Submit request with the quantity every request of a concurrent run has
SubmitRequest(p) == SubmitAccept(p, {FormJumlah})

\* a Submit request with any quantity field
SubmitRequestAnyQuantity(p) == SubmitAccept(p, Quantities)

\* the fallback read of column F is issued
FallbackReads(t) ==
    t.form.NoWA = Empty /\ t.sheetLen # -1 /\ t.sheetLen + 4 > 5

\* the phone of the last row the handler saw, taken when the form has none
FallbackNoWA(t, region, readOk) ==
    IF FallbackReads(t)
    THEN LET src == IF t.sheetLen <= Len(region) THEN <<region[t.sheetLen]>> ELSE << >>
             vals == ReadRange(src, 6, 6) IN
         IF readOk /\ Len(vals) > 0 /\ Len(vals[1]) > 0
         THEN TrimSpace(vals[1][1]) ELSE t.form.NoWA
    ELSE t.form.NoWA

\* the task up to the allocation read: services, photo upload, phone fallback
SubmitTask(p) ==
    LET t == task[p] IN
    /\ At(p, "s_task")
    /\ \E svcOk \in BOOLEAN, upOk \in BOOLEAN, readOk \in BOOLEAN :
         LET n1 == FallbackNoWA(t, loan, readOk)
             n2 == TrimSpace(n1)
         IN task' = [task EXCEPT ![p] =
              IF ~svcOk THEN Fail(t, "services")
              ELSE [t EXCEPT
                      !.pc = "s_count",
                      !.staged = FALSE,
                      !.calls = @ + (IF FallbackReads(t) THEN 1 ELSE 0),
                      !.form = [@ EXCEPT
                          !.FotoPath = IF t.staged /\ upOk THEN FotoURL ELSE Empty,
                          !.NoWA = IF n2 = Empty THEN n1 ELSE n2]]]
    /\ UNCHANGED <<loan, approval, ret, today, probe>>

\* a slip in the allocation: the row count taken as the ordinal
NextOrdinalIsRowCount(values) == IF Len(values) = 0 THEN 1 ELSE Len(values)

\* rows measured in column B give the next ordinal
NextOrdinal(values) == IF Len(values) = 0 THEN 1 ELSE Len(values) + 1

\* a slip in the write range: the header taken one row longer
SubmitAddrBelowHeader(row) == row + 5

\* the sheet row of the write range "A%d"
SubmitAddr(row) == row + 4

\* a slip in the allocation read: a failed read taken for an empty region
SubmitCountFailureAsEmpty(p) ==
    LET t == task[p]
        values == ReadRange(loan, 2, 2) IN
    /\ At(p, "s_count")
    /\ \E readOk \in BOOLEAN :
         LET n == IF readOk THEN NextOrdinal(values) ELSE 1 IN
         task' = [task EXCEPT ![p] =
            [t EXCEPT !.pc = "s_render", !.calls = @ + 1,
                      !.errs = IF readOk THEN @ ELSE @ \cup {"alloc"},
                      !.seen = IF readOk THEN Len(values) ELSE -1,
                      !.row = n,
                      !.addr = SubmitAddr(n)]]
    /\ UNCHANGED <<loan, approval, ret, today, probe>>

\* the allocation read of column B
SubmitCount(p) ==
    LET t == task[p]
        values == ReadRange(loan, 2, 2) IN
    /\ At(p, "s_count")
    /\ \E readOk \in BOOLEAN :
         task' = [task EXCEPT ![p] =
            IF ~readOk THEN Fail([t EXCEPT !.calls = @ + 1], "alloc")
            ELSE [t EXCEPT !.pc = "s_render", !.calls = @ + 1,
                           !.seen = Len(values),
                           !.row = NextOrdinal(values),
                           !.addr = SubmitAddr(NextOrdinal(values))]]
    /\ UNCHANGED <<loan, approval, ret, today, probe>>

\* the replacements generateSurat substitutes
LoanDoc(form, nomorUrut, day) ==
    [kind |-> "loan", NMR |-> Fmt04(nomorUrut), TGL |-> DateText(day),
     NAMA |-> form.Nama, NO |-> form.NoWA, KET |-> form.Keterangan,
     TGLPS |-> Empty, STS |-> Empty, YNG |-> Empty,
     foto |-> form.FotoPath, foto2 |-> Empty]

\* a slip in the render step: its failure is logged and the task goes on
SubmitRenderFailureIgnored(p) ==
    LET t == task[p] IN
    /\ At(p, "s_render")
    /\ \E renderOk \in BOOLEAN :
         task' = [task EXCEPT ![p] =
            IF ~renderOk THEN [t EXCEPT !.pc = "s_write", !.errs = @ \cup {"render"}]
            ELSE [t EXCEPT !.pc = "s_upload",
                           !.tmp = ExportPath("Formulir Peminjaman ", t.row,
                                              t.form.Nama)]]
    /\ UNCHANGED <<loan, approval, ret, today, probe>>

\* generateSurat up to the export: template copy, substitution, image pass
\* and export, the exported artifact being written to uploads/
SubmitRender(p) ==
    LET t == task[p] IN
    /\ At(p, "s_render")
    /\ \E renderOk \in BOOLEAN :
         task' = [task EXCEPT ![p] =
            IF ~renderOk THEN Fail(t, "render")
            ELSE [t EXCEPT !.pc = "s_upload",
                           !.tmp = ExportPath("Formulir Peminjaman ", t.row,
                                              t.form.Nama)]]
    /\ UNCHANGED <<loan, approval, ret, today, probe>>

\* generateSurat from the upload of the artifact on: the file is removed,
\* and the result of a failed upload, which is nil, is dereferenced
SubmitUpload(p) ==
    LET t == task[p] IN
    /\ At(p, "s_upload")
    /\ \E upOk \in BOOLEAN :
         task' = [task EXCEPT ![p] =
            IF ~upOk THEN Crash([t EXCEPT !.tmp = NoPath], "pdfupload")
            ELSE [t EXCEPT !.pc = "s_write", !.tmp = NoPath,
                           !.doc = LoanDoc(t.form, t.row, today)]]
    /\ UNCHANGED <<loan, approval, ret, today, probe>>

\* the sixteen values of a LoanRecord row, columns A..P
LoanValues(form, row, day) ==
    << Fmt04(row), DateText(day), form.Nama, FormKelas, FormNIS,
       form.NoWA, FormNamaAlat, FmtInt(form.JumlahAlat), FormTanggalPinjam,
       FormTanggalKembali,
       form.Keterangan, FormLama, form.FotoPath, PdfURL, DocURL, Empty >>

SubmitWrite(p) ==
    LET t == task[p] IN
    /\ At(p, "s_write")
    /\ \E writeOk \in BOOLEAN :
         IF writeOk
         THEN /\ loan' = WriteCells(loan, t.addr - LoanOffset, 1,
                                    LoanValues(t.form, t.row, today))
              /\ task' = [task EXCEPT ![p] =
                    [t EXCEPT !.pc = "s_notify", !.calls = @ + 1, !.wrote = @ + 1]]
         ELSE /\ loan' = loan
              /\ task' = [task EXCEPT ![p] = Fail([t EXCEPT !.calls = @ + 1], "write")]
    /\ UNCHANGED <<approval, ret, today, probe>>

\* recipients of the two sends that follow the write
SubmitRecipients(form) ==
    (IF form.NoWA # Empty /\ ValidAddress(form.NoWA) THEN {"submitter"} ELSE {})
        \cup {"approver"}

\* a slip in the submitter send: its failure ends the task
SubmitNotifyStopsOnFailure(p) ==
    LET t == task[p] IN
    /\ At(p, "s_notify")
    /\ \E sendOk \in BOOLEAN :
         task' = [task EXCEPT ![p] =
            IF "submitter" \notin SubmitRecipients(t.form)
            THEN [t EXCEPT !.pc = "s_approver"]
            ELSE IF sendOk
            THEN [t EXCEPT !.pc = "s_approver", !.sent = @ \cup {"submitter"}]
            ELSE Finish([t EXCEPT !.sent = @ \cup {"submitter"},
                                  !.unsent = @ \cup {"submitter"}])]
    /\ UNCHANGED <<loan, approval, ret, today, probe>>

\* the send to the submitter, made when the phone normalizes to an address;
\* its failure is logged and the task goes on
SubmitNotify(p) ==
    LET t == task[p] IN
    /\ At(p, "s_notify")
    /\ \E sendOk \in BOOLEAN :
         task' = [task EXCEPT ![p] =
            IF "submitter" \notin SubmitRecipients(t.form)
            THEN [t EXCEPT !.pc = "s_approver"]
            ELSE [t EXCEPT !.pc = "s_approver",
                           !.sent = @ \cup {"submitter"},
                           !.unsent = IF sendOk THEN @ ELSE @ \cup {"submitter"}]]
    /\ UNCHANGED <<loan, approval, ret, today, probe>>

\* the send to the approver, the last call of the task
SubmitNotifyApprover(p) ==
    LET t == task[p] IN
    /\ At(p, "s_approver")
    /\ \E sendOk \in BOOLEAN :
         task' = [task EXCEPT ![p] =
            Finish([t EXCEPT !.sent = @ \cup {"approver"},
                             !.unsent = IF sendOk THEN @ ELSE @ \cup {"approver"}])]
    /\ UNCHANGED <<loan, approval, ret, today, probe>>

Submit(p) ==
    \/ SubmitRequest(p)
    \/ SubmitTask(p)
    \/ SubmitCount(p)
    \/ SubmitRender(p)
    \/ SubmitUpload(p)
    \/ SubmitWrite(p)
    \/ SubmitNotify(p)
    \/ SubmitNotifyApprover(p)

---------------------------------------------------------------------------
(* Resolving an identifier to a row *)

\* index of the first row marked as matching, 0 when there is none
FirstMatch(hits) ==
    IF \E i \in 1 .. Len(hits) : hits[i]
    THEN CHOOSE i \in 1 .. Len(hits) : hits[i] /\ \A j \in 1 .. (i - 1) : ~hits[j]
    ELSE 0

\* handleApprove compares the identifier cell with the request's text
ApproveMatches(row, idPinjam) == Len(row) > 0 /\ row[1] = idPinjam

\* handleApprovalRequestNew compares after stripping leading zeros
ApprovalNewMatches(row, idPinjam) ==
    Len(row) > 0 /\ TrimLeftZero(row[1]) = TrimLeftZero(idPinjam)

\* a slip in the search: every row with an identifier matches
ReturnMatchesAnyRow(row, idPeminjam) == Len(row) > 0

\* handlePengembalian compares after stripping leading zeros
ReturnMatches(row, idPeminjam) ==
    Len(row) > 0 /\ TrimLeftZero(row[1]) = TrimLeftZero(idPeminjam)

\* a slip in the join: the referenced identifier compared as written
JoinMatchesExactly(approvalRow, idPeminjam) ==
    Len(approvalRow) > 4 /\ approvalRow[5] = idPeminjam

\* the approval join of handlePengembalian, on the referenced-loan column E
JoinMatches(approvalRow, idPeminjam) ==
    Len(approvalRow) > 4 /\ TrimLeftZero(approvalRow[5]) = TrimLeftZero(idPeminjam)

\* a slip in the precondition: the approver name left unchecked
ApproveInputMissingApproverUnchecked(idPinjam, approver, statusPersetujuan) ==
    idPinjam = Empty \/ statusPersetujuan = Empty

\* the precondition shared by both Approve handlers
ApproveInputMissing(idPinjam, approver, statusPersetujuan) ==
    idPinjam = Empty \/ approver = Empty \/ statusPersetujuan = Empty

---------------------------------------------------------------------------
(* Approve, status-only variant: handleApprove *)

\* validation, service construction, the read of column A and the search
ApproveAccept(p, approvers) ==
    /\ CanAccept(p)
    /\ \E id \in IdInputs, approver \in approvers, decision \in Decisions,
          svcOk \in BOOLEAN, readOk \in BOOLEAN :
         LET t0 == [IdleTask EXCEPT !.kind = "approve", !.id = id,
                                    !.approver = approver, !.decision = decision]
             values == ReadRange(loan, 1, 1)
             rowIndex == FirstMatch([k \in 1 .. Len(values) |->
                             ApproveMatches(values[k], id)])
         IN task' = [task EXCEPT ![p] =
              IF ApproveInputMissing(id, approver, decision)
              THEN Fail([t0 EXCEPT !.resp = "400"], "input")
              ELSE IF ~svcOk THEN Fail([t0 EXCEPT !.resp = "500"], "services")
              ELSE IF ~readOk \/ Len(values) = 0
              THEN Fail([t0 EXCEPT !.resp = "500", !.calls = 1], "read")
              ELSE IF rowIndex = 0
              THEN Fail([t0 EXCEPT !.resp = "400", !.calls = 1], "notfound")
              ELSE [t0 EXCEPT !.pc = "a_status", !.calls = 1, !.found = TRUE,
                              !.lrow = rowIndex, !.addr = rowIndex + 4]]
    /\ UNCHANGED <<loan, approval, ret, today, probe>>

\* a request of one approver (or of none)
ApproveRequest(p) == ApproveAccept(p, Approvers)

\* a request of any of several approvers
ApproveRequestAnyApprover(p) == ApproveAccept(p, ApproverNames)

\* one of the three single-cell writes; a failed write ends the request
ApproveCell(p, pc, col, value, next) ==
    LET t == task[p] IN
    /\ At(p, pc)
    /\ \E writeOk \in BOOLEAN :
         IF writeOk
         THEN /\ loan' = WriteCells(loan, t.addr - LoanOffset, col, <<value>>)
              /\ task' = [task EXCEPT ![p] =
                    IF next = "done"
                    THEN Finish([t EXCEPT !.calls = @ + 1, !.wrote = @ + 1,
                                          !.resp = "ack"])
                    ELSE [t EXCEPT !.pc = next, !.calls = @ + 1, !.wrote = @ + 1]]
         ELSE /\ loan' = loan
              /\ task' = [task EXCEPT ![p] =
                    Fail([t EXCEPT !.calls = @ + 1, !.resp = "500"], "write")]
    /\ UNCHANGED <<approval, ret, today, probe>>

\* column Q: the decision
ApproveWriteStatus(p) ==
    ApproveCell(p, "a_status", 17, task[p].decision, "a_date")

\* a slip in the second write: the timestamp put into the status column
ApproveWriteDateOverStatus(p) ==
    ApproveCell(p, "a_date", 17, DateText(today), "a_approver")

\* column R: the timestamp
ApproveWriteDate(p) ==
    ApproveCell(p, "a_date", 18, DateText(today), "a_approver")

\* column S: the approver name
ApproveWriteApprover(p) ==
    ApproveCell(p, "a_approver", 19, task[p].approver, "done")

Approve(p) ==
    \/ ApproveRequest(p)
    \/ ApproveWriteStatus(p)
    \/ ApproveWriteDate(p)
    \/ ApproveWriteApprover(p)

---------------------------------------------------------------------------
(* Approve, document-generating variant: handleApprovalRequestNew *)

\* fields copied from the first row that matches, empty when none does
ApprovalNewForm(values, idPinjam) ==
    LET i == FirstMatch([k \in 1 .. Len(values) |->
                 ApprovalNewMatches(values[k], idPinjam)]) IN
    IF i = 0 THEN NoForm
    ELSE [NoForm EXCEPT
            !.Nama = Cell(values[i], 3),
            !.NoWA = TrimSpace(Cell(values[i], 6)),
            !.Keterangan = Cell(values[i], 12),
            !.PeminjamanFotoPath = Cell(values[i], 13)]

\* the phone of the first row whose identifier equals the request's text
ApprovalNewFallback(values, idPinjam) ==
    LET i == FirstMatch([k \in 1 .. Len(values) |->
                 Len(values[k]) > 0 /\ values[k][1] = idPinjam]) IN
    IF i = 0 THEN Empty ELSE TrimSpace(Cell(values[i], 6))

\* validation, service construction, the read of the loan region and the
\* extraction of the LoanRecord's fields
ApproveNewRequest(p) ==
    /\ CanAccept(p)
    /\ \E id \in IdInputs, approver \in Approvers, decision \in Decisions,
          svcOk \in BOOLEAN, readOk \in BOOLEAN :
         LET t0 == [IdleTask EXCEPT !.kind = "approveNew", !.id = id,
                                    !.approver = approver, !.decision = decision]
             values == ReadRange(loan, 1, 26)
         IN task' = [task EXCEPT ![p] =
              IF ApproveInputMissing(id, approver, decision)
              THEN Fail([t0 EXCEPT !.resp = "400"], "input")
              ELSE IF ~svcOk THEN Fail([t0 EXCEPT !.resp = "500"], "services")
              ELSE IF ~readOk \/ Len(values) = 0
              THEN Fail([t0 EXCEPT !.resp = "500", !.calls = 1], "read")
              ELSE [t0 EXCEPT
                      !.pc = "n_render", !.calls = 1,
                      !.found = FirstMatch([k \in 1 .. Len(values) |->
                                    ApprovalNewMatches(values[k], id)]) # 0,
                      !.lrow = FirstMatch([k \in 1 .. Len(values) |->
                                    ApprovalNewMatches(values[k], id)]),
                      !.form = ApprovalNewForm(values, id),
                      !.fallbackNoWA = ApprovalNewFallback(values, id)]]
    /\ UNCHANGED <<loan, approval, ret, today, probe>>

\* strconv.Atoi(idPinjam), 1 when it fails
ApprovalNomorUrut(idPinjam) == IF Atoi(idPinjam).ok THEN Atoi(idPinjam).val ELSE 1

\* the replacements generateSuratApproval substitutes
ApprovalDoc(form, nomorUrut, approver, statusPersetujuan, day) ==
    [kind |-> "approval", NMR |-> Fmt04(nomorUrut), TGL |-> DateText(day),
     NAMA |-> form.Nama, NO |-> form.NoWA, KET |-> form.Keterangan,
     TGLPS |-> DateText(day), STS |-> statusPersetujuan, YNG |-> approver,
     foto |-> form.PeminjamanFotoPath, foto2 |-> Empty]

\* a slip in the render step: its failure is not reported to the caller
ApproveNewRenderFailureUnreported(p) ==
    LET t == task[p] IN
    /\ At(p, "n_render")
    /\ \E renderOk \in BOOLEAN :
         task' = [task EXCEPT ![p] =
            IF ~renderOk THEN Fail([t EXCEPT !.resp = "ack"], "render")
            ELSE [t EXCEPT !.pc = "n_upload",
                           !.tmp = ExportPath("Formulir Approval ",
                                              ApprovalNomorUrut(t.id), t.form.Nama)]]
    /\ UNCHANGED <<loan, approval, ret, today, probe>>

\* generateSuratApproval up to the export, the exported artifact being
\* written to uploads/
ApproveNewRender(p) ==
    LET t == task[p] IN
    /\ At(p, "n_render")
    /\ \E renderOk \in BOOLEAN :
         task' = [task EXCEPT ![p] =
            IF ~renderOk THEN Fail([t EXCEPT !.resp = "500"], "render")
            ELSE [t EXCEPT !.pc = "n_upload",
                           !.tmp = ExportPath("Formulir Approval ",
                                              ApprovalNomorUrut(t.id), t.form.Nama)]]
    /\ UNCHANGED <<loan, approval, ret, today, probe>>

\* generateSuratApproval from the upload of the artifact on: the file is
\* removed, and a failed upload is returned as the render's error
ApproveNewUpload(p) ==
    LET t == task[p] IN
    /\ At(p, "n_upload")
    /\ \E upOk \in BOOLEAN :
         task' = [task EXCEPT ![p] =
            IF ~upOk
            THEN Fail(Fail([t EXCEPT !.tmp = NoPath, !.resp = "500"], "pdfupload"),
                      "render")
            ELSE [t EXCEPT !.pc = "n_count", !.tmp = NoPath,
                           !.doc = ApprovalDoc(t.form, ApprovalNomorUrut(t.id),
                                               t.approver, t.decision, today)]]
    /\ UNCHANGED <<loan, approval, ret, today, probe>>

\* the sheet row of the write range, from the rows read in A6:F
ApprovalRowNum(values) == Len(values) + 6

\* the read of the approval region that places the new row
ApproveNewCount(p) ==
    LET t == task[p]
        values == ReadRange(approval, 1, 6) IN
    /\ At(p, "n_count")
    /\ \E readOk \in BOOLEAN :
         task' = [task EXCEPT ![p] =
            IF ~readOk THEN Fail([t EXCEPT !.calls = @ + 1, !.resp = "500"], "alloc")
            ELSE [t EXCEPT !.pc = "n_write", !.calls = @ + 1,
                           !.seen = Len(values),
                           !.addr = ApprovalRowNum(values)]]
    /\ UNCHANGED <<loan, approval, ret, today, probe>>

\* the six values of an ApprovalRecord row, columns A..F
ApprovalValues(rowNum, day, peminjamName, approver, idPinjam, statusPersetujuan) ==
    << Fmt04(rowNum - 5), DateText(day), peminjamName, approver, idPinjam,
       statusPersetujuan >>

ApproveNewWrite(p) ==
    LET t == task[p] IN
    /\ At(p, "n_write")
    /\ \E writeOk \in BOOLEAN :
         IF writeOk
         THEN /\ approval' = WriteCells(approval, t.addr - ApprovalOffset, 1,
                    ApprovalValues(t.addr, today, t.form.Nama, t.approver, t.id,
                                   t.decision))
              /\ task' = [task EXCEPT ![p] =
                    [t EXCEPT !.pc = "n_notify", !.calls = @ + 1, !.wrote = @ + 1]]
         ELSE /\ approval' = approval
              /\ task' = [task EXCEPT ![p] =
                    Fail([t EXCEPT !.calls = @ + 1, !.resp = "500"], "write")]
    /\ UNCHANGED <<loan, ret, today, probe>>

\* recipients of the sends that follow the write
ApprovalRecipients(noWA, noWAFallback) ==
    (IF ValidAddress(noWA) \/ ValidAddress(noWAFallback) THEN {"submitter"} ELSE {})
        \cup {"approver"}

ApproveNewNotify(p) ==
    LET t == task[p] IN
    /\ At(p, "n_notify")
    /\ \E failed \in SUBSET ApprovalRecipients(t.form.NoWA, t.fallbackNoWA) :
         task' = [task EXCEPT ![p] =
            Finish([t EXCEPT !.sent = ApprovalRecipients(t.form.NoWA, t.fallbackNoWA),
                             !.unsent = failed,
                             !.resp = "ack"])]
    /\ UNCHANGED <<loan, approval, ret, today, probe>>

ApproveNew(p) ==
    \/ ApproveNewRequest(p)
    \/ ApproveNewRender(p)
    \/ ApproveNewUpload(p)
    \/ ApproveNewCount(p)
    \/ ApproveNewWrite(p)
    \/ ApproveNewNotify(p)

---------------------------------------------------------------------------
(* Return: handlePengembalian *)

\* the handler thread: method test, form capture, photo staging,
\* acknowledgment
ReturnRequest(p) ==
    /\ CanAccept(p)
    /\ \E method \in Methods, id \in IdInputs, foto \in BOOLEAN :
         task' = [task EXCEPT ![p] =
            IF method = "OPTIONS"
            THEN Finish([IdleTask EXCEPT !.kind = "return", !.method = method,
                                         !.resp = "200"])
            ELSE IF method # "POST"
            THEN Finish([IdleTask EXCEPT !.kind = "return", !.method = method,
                                         !.resp = "405"])
            ELSE [IdleTask EXCEPT !.kind = "return", !.pc = "r_lookup", !.id = id,
                                  !.staged = foto, !.resp = "ack"]]
    /\ UNCHANGED <<loan, approval, ret, today, probe>>

\* fields copied from the matched LoanRecord row
ReturnForm(row) ==
    [NoForm EXCEPT
        !.Nama = Cell(row, 3),
        !.NoWA = Cell(row, 6),
        !.Keterangan = Cell(row, 11),
        !.PeminjamanFotoPath = Cell(row, 13)]

\* the task's read of the loan region and the search for the LoanRecord
ReturnLookup(p) ==
    LET t == task[p]
        values == ReadRange(loan, 1, 26)
        i == FirstMatch([k \in 1 .. Len(values) |->
                 ReturnMatches(values[k], t.id)]) IN
    /\ At(p, "r_lookup")
    /\ \E svcOk \in BOOLEAN, readOk \in BOOLEAN :
         task' = [task EXCEPT ![p] =
            IF ~svcOk THEN Fail(t, "services")
            ELSE IF ~readOk THEN Fail([t EXCEPT !.calls = @ + 1], "read")
            ELSE IF i = 0 THEN Fail([t EXCEPT !.calls = @ + 1], "notfound")
            ELSE [t EXCEPT !.pc = "r_join", !.calls = @ + 1, !.lrow = i,
                           !.form = ReturnForm(values[i])]]
    /\ UNCHANGED <<loan, approval, ret, today, probe>>

\* approval date, status and approver joined from the approval region
JoinApproval(form, values, idPeminjam) ==
    LET j == FirstMatch([k \in 1 .. Len(values) |->
                 JoinMatches(values[k], idPeminjam)]) IN
    IF j = 0 THEN form
    ELSE [form EXCEPT
            !.ApprovalDate = Cell(values[j], 2),
            !.ApprovalStatus = Cell(values[j], 6),
            !.ApproverName = Cell(values[j], 4)]

\* the read of the approval region made for the matched row; its failure is
\* logged and leaves the approval fields empty
ReturnJoin(p) ==
    LET t == task[p] IN
    /\ At(p, "r_join")
    /\ \E readOk \in BOOLEAN :
         task' = [task EXCEPT ![p] =
            [t EXCEPT !.pc = "r_count", !.calls = @ + 1, !.found = TRUE,
                      !.errs = IF readOk THEN @ ELSE @ \cup {"join"},
                      !.form = IF readOk
                               THEN JoinApproval(t.form, ReadRange(approval, 1, 6), t.id)
                               ELSE t.form]]
    /\ UNCHANGED <<loan, approval, ret, today, probe>>

\* the sheet row of the write range "A%d"
ReturnAddr(row) == row + 4

\* photo upload, then the allocation read of column B of the return region
ReturnCount(p) ==
    LET t == task[p]
        values == ReadRange(ret, 2, 2) IN
    /\ At(p, "r_count")
    /\ \E upOk \in BOOLEAN, readOk \in BOOLEAN :
         LET f == [t.form EXCEPT
                     !.FotoPath = IF ~t.staged THEN Empty
                                  ELSE IF upOk THEN FotoURL ELSE GagalUpload]
         IN task' = [task EXCEPT ![p] =
              IF ~readOk
              THEN Fail([t EXCEPT !.calls = @ + 1, !.staged = FALSE, !.form = f],
                        "alloc")
              ELSE [t EXCEPT !.pc = "r_render", !.calls = @ + 1, !.staged = FALSE,
                             !.form = f,
                             !.seen = Len(values),
                             !.row = NextOrdinal(values),
                             !.addr = ReturnAddr(NextOrdinal(values))]]
    /\ UNCHANGED <<loan, approval, ret, today, probe>>

\* the identifier as a number, the allocated ordinal when it is not one
ReturnNomorUrut(idPeminjam, row) ==
    IF Atoi(idPeminjam).ok THEN Atoi(idPeminjam).val ELSE row

\* the replacements generateSuratPengembalian substitutes
ReturnDoc(form, nomorUrut, day) ==
    [kind |-> "return", NMR |-> Fmt04(nomorUrut), TGL |-> DateText(day),
     NAMA |-> form.Nama, NO |-> form.NoWA, KET |-> form.Keterangan,
     TGLPS |-> form.ApprovalDate, STS |-> form.ApprovalStatus,
     YNG |-> form.ApproverName,
     foto |-> form.PeminjamanFotoPath,
     foto2 |-> IF form.PeminjamanFotoPath # Empty THEN form.FotoPath ELSE Empty]

\* generateSuratPengembalian up to the export, the exported artifact being
\* written to uploads/; when the LoanRecord has a photo and the fetch of the
\* document fails, its nil result is dereferenced
ReturnRender(p) ==
    LET t == task[p] IN
    /\ At(p, "r_render")
    /\ \E renderOk \in BOOLEAN, getOk \in BOOLEAN :
         task' = [task EXCEPT ![p] =
            IF t.form.PeminjamanFotoPath # Empty /\ ~getOk THEN Crash(t, "docget")
            ELSE IF ~renderOk THEN Fail(t, "render")
            ELSE [t EXCEPT !.pc = "r_upload",
                           !.tmp = ExportPath("Formulir Pengembalian ",
                                              ReturnNomorUrut(t.id, t.row),
                                              t.form.Nama)]]
    /\ UNCHANGED <<loan, approval, ret, today, probe>>

\* generateSuratPengembalian from the upload of the artifact on: the file is
\* removed, and the result of a failed upload, which is nil, is dereferenced
ReturnUpload(p) ==
    LET t == task[p] IN
    /\ At(p, "r_upload")
    /\ \E upOk \in BOOLEAN :
         task' = [task EXCEPT ![p] =
            IF ~upOk THEN Crash([t EXCEPT !.tmp = NoPath], "pdfupload")
            ELSE [t EXCEPT !.pc = "r_write", !.tmp = NoPath,
                           !.doc = ReturnDoc(t.form, ReturnNomorUrut(t.id, t.row),
                                             today)]]
    /\ UNCHANGED <<loan, approval, ret, today, probe>>

\* the identifier zero-padded when it is a number, as given otherwise
ReturnIdFormatted(idPeminjam) ==
    IF Atoi(idPeminjam).ok THEN Fmt04(Atoi(idPeminjam).val) ELSE idPeminjam

\* the six values of a ReturnRecord row, columns A..F
ReturnValues(form, idPeminjam, day) ==
    << ReturnIdFormatted(idPeminjam), form.Nama, DateText(day), FormKondisi,
       FormKeteranganPengembalian, form.FotoPath >>

ReturnWrite(p) ==
    LET t == task[p] IN
    /\ At(p, "r_write")
    /\ \E writeOk \in BOOLEAN :
         IF writeOk
         THEN /\ ret' = WriteCells(ret, t.addr - ReturnOffset, 1,
                                   ReturnValues(t.form, t.id, today))
              /\ task' = [task EXCEPT ![p] =
                    [t EXCEPT !.pc = "r_notify", !.calls = @ + 1, !.wrote = @ + 1]]
         ELSE /\ ret' = ret
              /\ task' = [task EXCEPT ![p] = Fail([t EXCEPT !.calls = @ + 1], "write")]
    /\ UNCHANGED <<loan, approval, today, probe>>

\* recipients of the two sends that follow the write
ReturnRecipients(form) ==
    (IF form.NoWA # Empty /\ ValidAddress(form.NoWA) THEN {"submitter"} ELSE {})
        \cup (IF ValidAddress(ApproverNo) THEN {"approver"} ELSE {})

ReturnNotify(p) ==
    LET t == task[p] IN
    /\ At(p, "r_notify")
    /\ \E failed \in SUBSET ReturnRecipients(t.form) :
         task' = [task EXCEPT ![p] =
            Finish([t EXCEPT !.sent = ReturnRecipients(t.form), !.unsent = failed])]
    /\ UNCHANGED <<loan, approval, ret, today, probe>>

Return(p) ==
    \/ ReturnRequest(p)
    \/ ReturnLookup(p)
    \/ ReturnJoin(p)
    \/ ReturnCount(p)
    \/ ReturnRender(p)
    \/ ReturnUpload(p)
    \/ ReturnWrite(p)
    \/ ReturnNotify(p)

---------------------------------------------------------------------------
(* Ledgers the server may find when it starts: rows written by earlier     *)
(* requests, built with the values those requests write                    *)

SeedForm == [NoForm EXCEPT !.Nama = <<"ann">>, !.NoWA = <<"0", "8">>,
                           !.JumlahAlat = 3,
                           !.Keterangan = FormKeterangan]

\* n LoanRecord rows of earlier Submits
SeedLoans(n) == [i \in 1 .. n |-> TrimRow(LoanValues(SeedForm, i, 1))]

\* identifiers that earlier document-generating Approves were given
SeedRefs == {<<"0", "0", "0", "1">>, <<"2">>}

\* one ApprovalRecord row of an earlier Approve, at data row j
SeedApprovalRow(j, ref, decision) ==
    ApprovalValues(j + 5, 1, SeedForm.Nama, <<"pak">>, ref, decision)

\* the ledgers with up to n ApprovalRecord rows
RECURSIVE SeedApprovals(_)
SeedApprovals(n) ==
    IF n = 0 THEN { << >> }
    ELSE LET shorter == SeedApprovals(n - 1) IN
         shorter \cup
         { Append(s, SeedApprovalRow(n, ref, decision)) :
             s \in { x \in shorter : Len(x) = n - 1 },
             ref \in SeedRefs, decision \in Decisions \ {Empty} }

TaskInit == task = [p \in Procs |-> IdleTask]

\* an empty ledger
Init ==
    /\ loan = << >>
    /\ approval = << >>
    /\ ret = << >>
    /\ today = 1
    /\ probe = NoProbe
    /\ TaskInit

\* a ledger with LoanRecords
InitLoans ==
    /\ loan \in { SeedLoans(n) : n \in 0 .. MaxSeedLoans }
    /\ approval = << >>
    /\ ret = << >>
    /\ today = 1
    /\ probe = NoProbe
    /\ TaskInit

\* a ledger with LoanRecords and ApprovalRecords
InitApprovals ==
    /\ loan \in { SeedLoans(n) : n \in 0 .. MaxSeedLoans }
    /\ approval \in SeedApprovals(MaxSeedApprovals)
    /\ ret = << >>
    /\ today = 1
    /\ probe = NoProbe
    /\ TaskInit

\* a ledger with one LoanRecord, its borrower name being any a Submit accepts
InitOneLoan ==
    /\ loan \in { << TrimRow(LoanValues([SeedForm EXCEPT !.Nama = nama], 1, 1)) >> :
                     nama \in Names }
    /\ approval = << >>
    /\ ret = << >>
    /\ today = 1
    /\ probe = NoProbe
    /\ TaskInit

---------------------------------------------------------------------------
(* Direct calls of normalizePhoneNumber *)

\* longest phone text given to normalizePhoneNumber
MaxPhoneLen == 3

\* characters of a phone text: digits, "+", the separators, white space that
\* is no separator, and a letter
PhoneChars == {"0", "2", "6", "+", "-", " ", "\t", "a"}

RECURSIVE TextsUpTo(_, _)
\* the texts over chars of length n or less
TextsUpTo(chars, n) ==
    IF n = 0 THEN { << >> }
    ELSE LET shorter == TextsUpTo(chars, n - 1) IN
         shorter \cup { Append(x, c) : x \in { y \in shorter : Len(y) = n - 1 },
                                       c \in chars }

PhoneTexts == TextsUpTo(PhoneChars, MaxPhoneLen)

\* a text is about to be normalized
InitPhone ==
    /\ loan = << >>
    /\ approval = << >>
    /\ ret = << >>
    /\ today = 1
    /\ TaskInit
    /\ probe \in { [fn |-> "normalizePhoneNumber", pc |-> "call", no |-> x,
                     once |-> Empty, twice |-> Empty] : x \in PhoneTexts }

\* normalizePhoneNumber(no)
NormalizeOnce ==
    /\ probe.pc = "call"
    /\ probe' = [probe EXCEPT !.pc = "again",
                              !.once = normalizePhoneNumber(probe.no)]
    /\ UNCHANGED <<loan, approval, ret, today, task>>

\* its result normalized again, as kirimPesanWaBangkit does with the
\* address its callers normalized
NormalizeTwice ==
    /\ probe.pc = "again"
    /\ probe' = [probe EXCEPT !.pc = "done",
                              !.twice = normalizePhoneNumber(probe.once)]
    /\ UNCHANGED <<loan, approval, ret, today, task>>

NextPhone == NormalizeOnce \/ NormalizeTwice

SpecPhone == InitPhone /\ [][NextPhone]_vars

---------------------------------------------------------------------------
(* Direct calls of getSalam *)

\* the wall clock, in minutes since midnight
ClockTimes == 0 .. (24 * 60 - 1)

\* time.Time.Hour()
Hour(now) == now \div 60

\* a slip in the bands: each bound taken inclusively
getSalamInclusive(now) ==
    LET hour == Hour(now) IN
    IF hour <= 11 THEN "Selamat pagi"
    ELSE IF hour <= 15 THEN "Selamat siang"
    ELSE IF hour <= 18 THEN "Selamat sore"
    ELSE "Selamat malam"

\* getSalam() when the clock shows now
getSalam(now) ==
    LET hour == Hour(now) IN
    IF hour < 11 THEN "Selamat pagi"
    ELSE IF hour < 15 THEN "Selamat siang"
    ELSE IF hour < 18 THEN "Selamat sore"
    ELSE "Selamat malam"

\* a message is about to be composed at some time of the day
InitSalam ==
    /\ loan = << >>
    /\ approval = << >>
    /\ ret = << >>
    /\ today = 1
    /\ TaskInit
    /\ probe \in { [fn |-> "getSalam", pc |-> "call", now |-> t, salam |-> ""] :
                     t \in ClockTimes }

GetSalam ==
    /\ probe.pc = "call"
    /\ probe' = [probe EXCEPT !.pc = "done", !.salam = getSalam(probe.now)]
    /\ UNCHANGED <<loan, approval, ret, today, task>>

NextSalam == GetSalam

SpecSalam == InitSalam /\ [][NextSalam]_vars

---------------------------------------------------------------------------
(* The batched text substitution of generateSurat *)

\* three of the placeholder tokens: one filled by the server, two filled
\* with text the borrower typed
KeyNMR == <<"<", "<", "N", "M", "R", ">", ">">>
KeyNAMA == <<"<", "<", "N", "A", "M", "A", ">", ">">>
KeyKET == <<"<", "<", "K", "E", "T", ">", ">">>

PlaceholderKeys == <<KeyNMR, KeyNAMA, KeyKET>>

\* texts a borrower may type into the name or the remark field
BorrowerTexts == {<< >>, <<"x">>, KeyKET, KeyNAMA}

RECURSIVE JoinKeys(_, _)
\* the template text made of the placeholders marked in picks, each followed
\* by a line break
JoinKeys(picks, i) ==
    IF i > Len(PlaceholderKeys) THEN << >>
    ELSE (IF picks[i] THEN PlaceholderKeys[i] \o <<"\n">> ELSE << >>)
            \o JoinKeys(picks, i + 1)

\* bodies the template document may have: any selection of the placeholders
Templates == { JoinKeys(picks, 1) : picks \in [1 .. 3 -> BOOLEAN] }

\* text occurs in doc
Contains(doc, text) ==
    \E i \in 0 .. (Len(doc) - Len(text)) : SubSeq(doc, i + 1, i + Len(text)) = text

RECURSIVE ReplaceAllText(_, _, _)
\* one ReplaceAllTextRequest: every occurrence of key, scanning from the
\* start, becomes val; the text put in is not scanned again
ReplaceAllText(doc, key, val) ==
    IF Len(doc) < Len(key) THEN doc
    ELSE IF SubSeq(doc, 1, Len(key)) = key
         THEN val \o ReplaceAllText(SubSeq(doc, Len(key) + 1, Len(doc)), key, val)
         ELSE <<Head(doc)>> \o ReplaceAllText(Tail(doc), key, val)

\* the replacements map of generateSurat, by position in PlaceholderKeys
Replacements(form, nomorUrut) == <<Fmt04(nomorUrut), form.Nama, form.Keterangan>>

\* orders in which "for key, val := range replacements" may visit the map
RangeOrders == { o \in [1 .. 3 -> 1 .. 3] : \A i, j \in 1 .. 3 : o[i] = o[j] => i = j }

RECURSIVE BatchUpdate(_, _, _, _)
\* Documents.BatchUpdate: the requests applied one after the other, the
\* i-th being the replacement of the key visited i-th
BatchUpdate(doc, vals, order, i) ==
    IF i > 3 THEN doc
    ELSE BatchUpdate(ReplaceAllText(doc, PlaceholderKeys[order[i]], vals[order[i]]),
                     vals, order, i + 1)

\* a copy of the template is about to be filled
InitRender ==
    /\ loan = << >>
    /\ approval = << >>
    /\ ret = << >>
    /\ today = 1
    /\ TaskInit
    /\ probe \in { [fn |-> "generateSurat", pc |-> "call", template |-> body,
                     form |-> [NoForm EXCEPT !.Nama = nama, !.Keterangan = ket],
                     nomorUrut |-> 1, doc |-> body] :
                     body \in Templates, nama \in BorrowerTexts, ket \in BorrowerTexts }

\* the batched substitution: it fails as a whole or applies every request
RenderBatchUpdate ==
    /\ probe.fn = "generateSurat" /\ probe.pc = "call"
    /\ \E ok \in BOOLEAN, order \in RangeOrders :
         probe' = IF ~ok THEN [probe EXCEPT !.pc = "failed"]
                  ELSE [probe EXCEPT
                          !.pc = "done",
                          !.doc = BatchUpdate(probe.template,
                                      Replacements(probe.form, probe.nomorUrut),
                                      order, 1)]
    /\ UNCHANGED <<loan, approval, ret, today, task>>

NextRender == RenderBatchUpdate

SpecRender == InitRender /\ [][NextRender]_vars

---------------------------------------------------------------------------
(* The image passes of the three renderers *)

KeyFOTO == <<"<", "<", "F", "O", "T", "O", ">", ">">>
KeyFOTO2 == <<"<", "<", "F", "O", "T", "O", "2", ">", ">">>

\* the marker text "IMG_PLACEHOLDER" of the second pass
Marker == <<"I", "M", "G", "_", "P", "L", "A", "C", "E", "H", "O", "L", "D", "E", "R">>

\* paragraphs of a template body
MaxParagraphs == 2

\* paragraphs a body may have, each a sequence of text runs: without a
\* token, with a token that is a run of its own, inside a run, or at the
\* start of a later run
ImageParagraphs ==
    { << <<"a", "\n">> >>,
      << KeyFOTO \o <<"\n">> >>,
      << <<"a">> \o KeyFOTO \o <<"\n">> >>,
      << <<"a">>, KeyFOTO \o <<"\n">> >>,
      << KeyFOTO2 \o <<"\n">> >>,
      << <<"b">> \o KeyFOTO2 \o <<"\n">> >> }

ImageBodies == UNION { [1 .. n -> ImageParagraphs] : n \in 1 .. MaxParagraphs }

\* A document is the sequence of the characters of its body, each with the
\* paragraph and the text run it belongs to; the character at position k has
\* index k, the body starting at index 1.  An inline image takes one index
\* and belongs to no text run (run 0).
RunCells(content, i, j) ==
    [k \in 1 .. Len(content) |-> [par |-> i, run |-> j, ch |-> content[k]]]

RECURSIVE ParagraphCells(_, _, _)
ParagraphCells(paragraph, i, j) ==
    IF j > Len(paragraph) THEN << >>
    ELSE RunCells(paragraph[j], i, j) \o ParagraphCells(paragraph, i, j + 1)

RECURSIVE BodyCells(_, _)
BodyCells(body, i) ==
    IF i > Len(body) THEN << >>
    ELSE ParagraphCells(body[i], i, 1) \o BodyCells(body, i + 1)

\* the text of a document
TextOf(cells) == [k \in 1 .. Len(cells) |-> cells[k].ch]

\* the text runs of a document (c.Paragraph.Elements with e.TextRun != nil)
TextRuns(cells) ==
    { <<cells[k].par, cells[k].run>> : k \in { n \in 1 .. Len(cells) : cells[n].run # 0 } }

\* e.StartIndex of a text run
StartIndex(cells, r) ==
    CHOOSE k \in 1 .. Len(cells) :
        /\ <<cells[k].par, cells[k].run>> = r
        /\ \A n \in 1 .. (k - 1) : <<cells[n].par, cells[n].run>> # r

\* e.TextRun.Content
RunContent(cells, r) ==
    LET InRun(c) == <<c.par, c.run>> = r IN TextOf(SelectSeq(cells, InRun))

\* the runs for which strings.Contains(e.TextRun.Content, token) holds
RunsWith(cells, token) ==
    { r \in TextRuns(cells) : Contains(RunContent(cells, r), token) }

\* the search of generateSurat and of the first pass of
\* generateSuratPengembalian: index starts at 0, the break leaves the loop
\* over the elements only, so every later paragraph with a match sets index
\* again
IndexOfLastParagraph(cells, token) ==
    LET hits == RunsWith(cells, token) IN
    IF hits = {} THEN 0
    ELSE LET par == CHOOSE i \in { r[1] : r \in hits } :
                        \A r \in hits : r[1] <= i
             run == CHOOSE j \in { r[2] : r \in { h \in hits : h[1] = par } } :
                        \A r \in { h \in hits : h[1] = par } : j <= r[2]
         IN  StartIndex(cells, <<par, run>>)

\* the search of generateSuratApproval and of the marker: index starts at
\* -1 and the first match ends both loops
IndexOfFirst(cells, token) ==
    LET hits == RunsWith(cells, token) IN
    IF hits = {} THEN -1
    ELSE LET r == CHOOSE h \in hits :
                      \A g \in hits : StartIndex(cells, h) <= StartIndex(cells, g)
         IN  StartIndex(cells, r)

\* the two requests of one image BatchUpdate: DeleteContentRange over
\* [index, index + len(token)) and InsertInlineImage at index
ImageEdit(pass, index, token, uri) ==
    [pass |-> pass, StartIndex |-> index, EndIndex |-> index + Len(token),
     Index |-> index, Uri |-> uri]

\* the range of the deletion lies in the body and spares its last newline
ValidRange(cells, e) == e.StartIndex >= 1 /\ e.EndIndex <= Len(cells)

\* the document after the deletion and the insertion
ApplyEdit(cells, e) ==
    LET before == SubSeq(cells, 1, e.StartIndex - 1)
        after == SubSeq(cells, e.EndIndex, Len(cells))
    IN  before \o << [par |-> after[1].par, run |-> 0, ch |-> "image"] >> \o after

RECURSIVE ReplaceInCells(_, _, _)
\* ReplaceAllText on a document: every occurrence of key inside a text run
\* becomes val, in that run
ReplaceInCells(cells, key, val) ==
    IF Len(cells) < Len(key) THEN cells
    ELSE IF /\ TextOf(SubSeq(cells, 1, Len(key))) = key
            /\ cells[1].run # 0
            /\ \A k \in 1 .. Len(key) :
                  <<cells[k].par, cells[k].run>> = <<cells[1].par, cells[1].run>>
         THEN RunCells(val, cells[1].par, cells[1].run)
                 \o ReplaceInCells(SubSeq(cells, Len(key) + 1, Len(cells)), key, val)
         ELSE <<Head(cells)>> \o ReplaceInCells(Tail(cells), key, val)

\* a renderer has substituted the texts and is about to run its image passes
InitImage ==
    /\ loan = << >>
    /\ approval = << >>
    /\ ret = << >>
    /\ today = 1
    /\ TaskInit
    /\ probe \in
         { [fn |-> "imagePass", pc |-> "foto", renderer |-> r,
            form |-> [NoForm EXCEPT !.FotoPath = f, !.PeminjamanFotoPath = g],
            template |-> BodyCells(b, 1), doc |-> BodyCells(b, 1),
            edits |-> << >>, failures |-> {}] :
              r \in {"loan", "approval", "return"},
              f \in {Empty, FotoURL}, g \in {Empty, FotoURL}, b \in ImageBodies }
    /\ probe.renderer = "loan" => probe.form.PeminjamanFotoPath = Empty
    /\ probe.renderer = "approval" => probe.form.FotoPath = Empty

\* the photo the <<FOTO>> pass of a renderer embeds
FotoOf(renderer, form) ==
    IF renderer = "loan" THEN form.FotoPath ELSE form.PeminjamanFotoPath

\* the <<FOTO>> pass.  generateSurat and generateSuratPengembalian issue the
\* edit at whatever index the search left; generateSuratApproval skips it
\* when nothing matched.  The edit's error is ignored.  In
\* generateSuratPengembalian everything that follows, the second pass
\* included, lies in the branch of a LoanRecord with a photo, and reads the
\* fetched document also when the fetch failed.
ImagePassFoto ==
    /\ probe.fn = "imagePass" /\ probe.pc = "foto"
    /\ \E getOk \in BOOLEAN, applied \in BOOLEAN :
         LET uri == FotoOf(probe.renderer, probe.form)
             next == IF probe.renderer = "return" THEN "foto2" ELSE "export"
             index == IF probe.renderer = "approval"
                      THEN IndexOfFirst(probe.doc, KeyFOTO)
                      ELSE IndexOfLastParagraph(probe.doc, KeyFOTO)
             e == ImageEdit("FOTO", index, KeyFOTO, uri)
         IN probe' =
              IF uri = Empty THEN [probe EXCEPT !.pc = "export"]
              ELSE IF ~getOk
              THEN [probe EXCEPT
                      !.pc = IF probe.renderer = "return" THEN "crashed" ELSE "export",
                      !.failures = @ \cup {"get"}]
              ELSE IF probe.renderer = "approval" /\ index = -1
              THEN [probe EXCEPT !.pc = next]
              ELSE [probe EXCEPT
                      !.pc = next,
                      !.edits = Append(@, e),
                      !.failures = IF applied THEN @ ELSE @ \cup {"edit"},
                      !.doc = IF applied /\ ValidRange(probe.doc, e)
                              THEN ApplyEdit(probe.doc, e) ELSE @]
    /\ UNCHANGED <<loan, approval, ret, today, task>>

\* the <<FOTO2>> pass of generateSuratPengembalian: the token is replaced by
\* the marker, the document fetched again, and the marker's run replaced by
\* the return photo; a failed replacement or fetch and a marker that is not
\* found are the render's error
ImagePassFoto2 ==
    /\ probe.fn = "imagePass" /\ probe.pc = "foto2"
    /\ \E replaceOk \in BOOLEAN, getOk \in BOOLEAN, applied \in BOOLEAN :
         LET replaced == ReplaceInCells(probe.doc, KeyFOTO2, Marker)
             markerIndex == IndexOfFirst(replaced, Marker)
             e == ImageEdit("FOTO2", markerIndex, Marker, probe.form.FotoPath)
         IN probe' =
              IF probe.form.FotoPath = Empty THEN [probe EXCEPT !.pc = "export"]
              ELSE IF ~replaceOk
              THEN [probe EXCEPT !.pc = "failed", !.failures = @ \cup {"replace"}]
              ELSE IF ~getOk
              THEN [probe EXCEPT !.pc = "failed", !.doc = replaced,
                                 !.failures = @ \cup {"get"}]
              ELSE IF markerIndex = -1
              THEN [probe EXCEPT !.pc = "failed", !.doc = replaced]
              ELSE [probe EXCEPT
                      !.pc = "export",
                      !.edits = Append(@, e),
                      !.failures = IF applied THEN @ ELSE @ \cup {"edit"},
                      !.doc = IF applied /\ ValidRange(replaced, e)
                              THEN ApplyEdit(replaced, e) ELSE replaced]
    /\ UNCHANGED <<loan, approval, ret, today, task>>

NextImage == ImagePassFoto \/ ImagePassFoto2

SpecImage == InitImage /\ [][NextImage]_vars

---------------------------------------------------------------------------
(* Specifications *)

\* concurrent Submit requests
NextSubmit == Tick \/ \E p \in Procs : Submit(p)

SpecSubmit == Init /\ [][NextSubmit]_vars

\* concurrent Approve requests of both variants
NextApprove == Tick \/ \E p \in Procs : Approve(p) \/ ApproveNew(p)

SpecApprove == InitLoans /\ [][NextApprove]_vars

\* concurrent Return requests
NextReturn == \E p \in Procs : Return(p)

SpecReturn == InitApprovals /\ [][NextReturn]_vars

\* no request is in flight
NoneInFlight == \A q \in Procs : task[q].pc \in {"idle", "done"}

\* Return requests one after the other: a request arrives when the task of
\* the one before it has ended
NextReturnSequential ==
    \E p \in Procs :
        \/ NoneInFlight /\ ReturnRequest(p)
        \/ ReturnLookup(p)
        \/ ReturnJoin(p)
        \/ ReturnCount(p)
        \/ ReturnRender(p)
        \/ ReturnUpload(p)
        \/ ReturnWrite(p)
        \/ ReturnNotify(p)

SpecReturnSequential == InitOneLoan /\ [][NextReturnSequential]_vars

\* one Submit request with any quantity field
NextQuantity ==
    \E p \in {1} :
        \/ SubmitRequestAnyQuantity(p)
        \/ SubmitTask(p)
        \/ SubmitCount(p)
        \/ SubmitRender(p)
        \/ SubmitUpload(p)
        \/ SubmitWrite(p)
        \/ SubmitNotify(p)
        \/ SubmitNotifyApprover(p)

SpecQuantity == Init /\ [][NextQuantity]_vars

\* concurrent status-only Approve requests of several approvers
NextApprovers ==
    \E p \in Procs :
        \/ ApproveRequestAnyApprover(p)
        \/ ApproveWriteStatus(p)
        \/ ApproveWriteDate(p)
        \/ ApproveWriteApprover(p)

SpecApprovers == InitLoans /\ [][NextApprovers]_vars

\* every entry point, within one day of the clock
Next == \E p \in Procs : Submit(p) \/ Approve(p) \/ ApproveNew(p) \/ Return(p)

Spec == InitLoans /\ [][Next]_vars

---------------------------------------------------------------------------
(* Properties *)

RECURSIVE SumWrote(_, _)
\* ledger writes completed by the requests of one kind in slots 1..n
SumWrote(kind, n) ==
    IF n = 0 THEN 0
    ELSE SumWrote(kind, n - 1) + (IF task[n].kind = kind THEN task[n].wrote ELSE 0)

\* the rows of the loan region whose identifier equals id up to leading zeros
LoanRowsOf(id) ==
    { i \in 1 .. Len(loan) : TrimLeftZero(Cell(loan[i], 1)) = TrimLeftZero(id) }

\* the rows of the approval region that reference id up to leading zeros
ApprovalRowsOf(id) ==
    { j \in 1 .. Len(approval) :
        TrimLeftZero(Cell(approval[j], 5)) = TrimLeftZero(id) }

Max(S) == CHOOSE x \in S : \A y \in S : x >= y

\* the request has no effect beyond its own reads
NoEffects(t) == t.doc = NoDoc /\ t.wrote = 0 /\ t.sent = {}

\* the approval fields of a rendered return document are those of row j
CarriesApproval(doc, j) ==
    /\ doc.TGLPS = Cell(approval[j], 2)
    /\ doc.YNG = Cell(approval[j], 4)
    /\ doc.STS = Cell(approval[j], 6)

CarriesNoApproval(doc) ==
    doc.TGLPS = Empty /\ doc.YNG = Empty /\ doc.STS = Empty

\* C1: under any interleaving of Submit pipelines, every Submit that
\* completed its ledger write has its own row in the loan region: the loan
\* region (empty at the start) holds as many rows as Submits completed
\* their write.
C1_EverySubmitKeepsItsRow == Len(loan) = SumWrote("submit", MaxReq)

\* C2: under any interleaving of document-generating Approve requests,
\* every Approve that completed its ledger write appended a row: the
\* approval region (empty at the start) holds as many rows as Approves
\* completed their write.
C2_EveryApproveAppendsARow == Len(approval) = SumWrote("approveNew", MaxReq)

\* C3: when a region holds N data rows and the allocation read succeeds,
\* the ordinal is N + 1 and the write range is sheet row N + offset + 1
\* (N + 5 in the loan region, N + 6 in the approval region); the write then
\* places the row there, with the ordinal as its identifier, and changes no
\* other row.
C3_AllocationFollowsRowCount ==
    [][\A p \in Procs :
        /\ (task[p].pc = "s_count" /\ task'[p].pc = "s_render")
             => /\ task'[p].row = Len(loan) + 1
                /\ task'[p].addr = Len(loan) + 5
        /\ (task[p].pc = "n_count" /\ task'[p].pc = "n_write")
             => task'[p].addr = Len(approval) + 6
        /\ (task[p].pc = "s_write" /\ task'[p].pc = "s_notify")
             => /\ Len(loan') >= task[p].seen + 1
                /\ Cell(loan'[task[p].seen + 1], 1) = Fmt04(task[p].seen + 1)
                /\ \A i \in 1 .. Len(loan) : i # task[p].seen + 1 => loan'[i] = loan[i]
        /\ (task[p].pc = "n_write" /\ task'[p].pc = "n_notify")
             => /\ Len(approval') >= task[p].seen + 1
                /\ Cell(approval'[task[p].seen + 1], 1) = Fmt04(task[p].seen + 1)
                /\ \A i \in 1 .. Len(approval) :
                      i # task[p].seen + 1 => approval'[i] = approval[i]
      ]_vars

\* C3 witness: a Submit that found one row has written ordinal 0002 at
\* sheet row 6
C3_Witness ==
    \E p \in Procs :
        /\ task[p].kind = "submit" /\ task[p].pc = "s_notify"
        /\ task[p].seen = 1 /\ task[p].row = 2 /\ task[p].addr = 6
        /\ Cell(loan[2], 1) = <<"0", "0", "0", "2">>

\* C4 as stated: a Submit or Return whose allocation read failed goes on
\* with ordinal 1 and, nothing else failing, writes its row.
C4_ReadFailureTakenAsEmpty ==
    \A p \in Procs :
        (task[p].kind \in {"submit", "return"} /\ "alloc" \in task[p].errs)
            => /\ task[p].row = 1
               /\ (task[p].pc = "done" /\ task[p].errs = {"alloc"}
                      => task[p].wrote = 1)

\* C4 amended: a Submit or Return whose allocation read failed ends there,
\* with no ordinal, no document, no row written and no notification; the
\* ordinal is 1 when the read succeeded and returned no rows.
C4_ReadFailureAborts ==
    \A p \in Procs :
        task[p].kind \in {"submit", "return"}
            => /\ "alloc" \in task[p].errs
                    => /\ task[p].pc = "done"
                       /\ task[p].row = 0
                       /\ NoEffects(task[p])
               /\ task[p].seen = 0 => task[p].row = 1

\* C4 witness: a Submit and a Return have both ended on a failed
\* allocation read
C4_Witness ==
    \E p, q \in Procs :
        /\ task[p].kind = "submit" /\ "alloc" \in task[p].errs
        /\ task[q].kind = "return" /\ "alloc" \in task[q].errs

\* the request has searched the loan region for its identifier
Resolved(t) ==
    \/ t.kind = "approve" /\ (t.found \/ "notfound" \in t.errs)
    \/ t.kind = "approveNew" /\ t.calls >= 1 /\ "read" \notin t.errs

\* C5: two identifiers that differ only in leading zeros resolve to the
\* same row of the loan region, in every Approve pipeline (the identifier
\* column does not change while Approve requests run).
C5_LeadingZerosResolveAlike ==
    \A p, q \in Procs :
        (Resolved(task[p]) /\ Resolved(task[q])
            /\ TrimLeftZero(task[p].id) = TrimLeftZero(task[q].id))
            => task[p].lrow = task[q].lrow

\* C6: a document-generating Approve whose identifier matches no
\* LoanRecord renders no document, appends no ApprovalRecord and sends no
\* notification.
C6_ApproveNotFoundAborts ==
    \A p \in Procs :
        (task[p].kind = "approveNew" /\ Resolved(task[p]) /\ ~task[p].found)
            => NoEffects(task[p])

\* C7: a Return whose identifier matches no LoanRecord (up to leading
\* zeros) ends at the lookup: no document, no ReturnRecord row, no
\* notification; only a Return whose identifier matches goes further.
C7_ReturnNotFoundAborts ==
    \A p \in Procs :
        task[p].kind = "return"
            => /\ "notfound" \in task[p].errs
                    => /\ task[p].pc = "done"
                       /\ LoanRowsOf(task[p].id) = {}
                       /\ NoEffects(task[p])
               /\ LoanRowsOf(task[p].id) = {}
                    => /\ task[p].pc \in {"r_lookup", "done"}
                       /\ ~task[p].found
                       /\ NoEffects(task[p])

\* C7 witness: a Return for identifier 2 has ended "not found" on a ledger
\* that holds LoanRecord 0001
C7_Witness ==
    \E p \in Procs :
        /\ task[p].kind = "return" /\ task[p].id = <<"2">>
        /\ "notfound" \in task[p].errs
        /\ Len(loan) = 1

\* C8: when several ApprovalRecords reference the loan, the return
\* document carries the approval date, approver and status of the last one
\* appended.
C8_JoinsMostRecentApproval ==
    \A p \in Procs :
        (task[p].kind = "return" /\ task[p].doc # NoDoc
            /\ "join" \notin task[p].errs /\ ApprovalRowsOf(task[p].id) # {})
            => CarriesApproval(task[p].doc, Max(ApprovalRowsOf(task[p].id)))

C10_MissingInputRejected ==
    \A p \in Procs :
        (task[p].kind \in {"approve", "approveNew"}
            /\ (task[p].id = Empty \/ task[p].approver = Empty
                    \/ task[p].decision = Empty))
            => /\ task[p].pc = "done"
               /\ task[p].resp = "400"
               /\ task[p].calls = 0
               /\ NoEffects(task[p])

\* C10 witness: a status-only Approve without approver name and a
\* document-generating Approve without decision have both been rejected
C10_Witness ==
    \E p, q \in Procs :
        /\ task[p].kind = "approve" /\ task[p].approver = Empty
        /\ task[p].id # Empty /\ task[p].decision # Empty
        /\ task[p].resp = "400"
        /\ task[q].kind = "approveNew" /\ task[q].decision = Empty
        /\ task[q].id # Empty /\ task[q].approver # Empty
        /\ task[q].resp = "400"

\* C11: a Return request (POST) whose identifier is empty is not
\* acknowledged, and it writes no ReturnRecord and sends no notification.
C11_EmptyReturnRejected ==
    \A p \in Procs :
        (task[p].kind = "return" /\ task[p].method = "POST" /\ task[p].id = Empty)
            => /\ task[p].resp # "ack"
               /\ task[p].wrote = 0
               /\ task[p].sent = {}

\* C13: in Submit and Return the request-handling thread makes no call to
\* an external collaborator: when the task has been started and has not
\* yet taken a step, the request has issued no ledger call.
C13_HandlerThreadMakesNoCall ==
    \A p \in Procs :
        (task[p].kind \in {"submit", "return"} /\ task[p].pc \in {"s_task", "r_lookup"})
            => task[p].calls = 0

\* failures that a synchronous handler reports as a server error
ServerFailures == {"services", "read", "alloc", "render", "write"}

Normalized == probe.fn = "normalizePhoneNumber" /\ probe.pc # "call"

\* C15: normalizing the result of normalizePhoneNumber again returns it
\* unchanged, for every input.
C15_NormalizeIdempotent ==
    (probe.fn = "normalizePhoneNumber" /\ probe.pc = "done")
        => probe.twice = probe.once

\* C16: when the input without its separators is "+" followed by a text s
\* that begins with 62, the result is s, which is also the result for s.
C16_PlusBeforePrefixDropped ==
    LET n == DropSeparators(TrimSpace(probe.no)) IN
    (Normalized /\ HasPrefix(n, <<"+", "6", "2">>))
        => /\ probe.once = Tail(n)
           /\ probe.once = normalizePhoneNumber(Tail(n))

\* the characters of x that are neither a separator nor part of the white
\* space that surrounds x, in their order
RECURSIVE KeptChars(_, _)
KeptChars(x, i) ==
    IF i > Len(x) THEN << >>
    ELSE IF \/ x[i] \in {" ", "-", "(", ")"}
            \/ \A j \in 1 .. i : IsSpace(x[j])
            \/ \A j \in i .. Len(x) : IsSpace(x[j])
         THEN KeptChars(x, i + 1)
         ELSE <<x[i]>> \o KeptChars(x, i + 1)

\* the four cases of the reference, on a cleaned text
FourCases(n) ==
    IF n # << >> /\ n[1] = "+" THEN <<"6", "2">> \o SubSeq(n, 2, Len(n))
    ELSE IF n # << >> /\ n[1] = "0" THEN <<"6", "2">> \o SubSeq(n, 2, Len(n))
    ELSE IF Len(n) >= 2 /\ n[1] = "6" /\ n[2] = "2" THEN n
    ELSE << >>

\* C17: for every input the result is that of the four cases (leading "+"
\* replaced by 62, else leading "0" replaced by 62, else a text beginning
\* with 62 unchanged, else empty) on the input without its surrounding white
\* space and without the separators space, "-", "(", ")".
C17_NormalizeIsFourCases ==
    Normalized => probe.once = FourCases(KeptChars(probe.no, 1))

\* C17 witness: " 0-" has been normalized to "62"
C17_Witness ==
    /\ Normalized
    /\ probe.no = <<" ", "0", "-">>
    /\ probe.once = <<"6", "2">>

\* C18: the result is empty, or made of decimal digits only and beginning
\* with 62.
C18_ResultIsDigitsWithPrefix ==
    Normalized
        => \/ probe.once = Empty
           \/ /\ HasPrefix(probe.once, <<"6", "2">>)
              /\ \A i \in 1 .. Len(probe.once) : IsDigit(probe.once[i])

\* C19: the salutation depends on the hour alone and has four bands: hours
\* 0..10 morning, 11..14 midday, 15..17 afternoon, 18..23 evening.
C19_SalutationBands ==
    (probe.fn = "getSalam" /\ probe.pc = "done")
        => LET h == CHOOSE k \in 0 .. 23 :
                        probe.now \in (60 * k) .. (60 * k + 59) IN
           /\ h \in 0 .. 10 => probe.salam = "Selamat pagi"
           /\ h \in 11 .. 14 => probe.salam = "Selamat siang"
           /\ h \in 15 .. 17 => probe.salam = "Selamat sore"
           /\ h \in 18 .. 23 => probe.salam = "Selamat malam"

\* C19 witness: at 17:59 the salutation is the afternoon one
C19_Witness ==
    /\ probe.fn = "getSalam" /\ probe.pc = "done"
    /\ probe.now = 17 * 60 + 59
    /\ probe.salam = "Selamat sore"

\* C20: after the batched text substitution the document contains no
\* placeholder that is a key of the mapping, and it contains the replacement
\* value of every key that occurred in the template.
C20_NoPlaceholderLeft ==
    (probe.fn = "generateSurat" /\ probe.pc = "done")
        => \A k \in 1 .. 3 :
              /\ ~Contains(probe.doc, PlaceholderKeys[k])
              /\ Contains(probe.template, PlaceholderKeys[k])
                    => Contains(probe.doc,
                                Replacements(probe.form, probe.nomorUrut)[k])

\* C21: every LoanRecord row in the loan region has a quantity cell that is
\* an integer greater than 0, whatever text the Submit request carried in
\* the quantity field.
C21_QuantityPositive ==
    \A i \in 1 .. Len(loan) :
        /\ AtoiSigned(Cell(loan[i], 8)).ok
        /\ AtoiSigned(Cell(loan[i], 8)).val > 0

\* the cell at data row i, column j of a region, empty beyond its extent
CellAt(region, i, j) == IF i <= Len(region) THEN Cell(region[i], j) ELSE Empty

\* the column a status-only Approve writes at each of its steps, 0 at the
\* others
ApproveColumn(pc) ==
    IF pc = "a_status" THEN 17
    ELSE IF pc = "a_date" THEN 18
    ELSE IF pc = "a_approver" THEN 19
    ELSE 0

C23_EveryReturnAddsARow ==
    [][\A p \in Procs :
        (task[p].pc = "r_write" /\ task'[p].wrote = task[p].wrote + 1)
            => /\ Len(ret') = Len(ret) + 1
               /\ \A i \in 1 .. Len(ret) : ret'[i] = ret[i]
      ]_vars

\* C24: when the task of a Submit or Return has ended, no uploaded photo of
\* that request lies in the staging area, whatever path the task took.
C24_StagedPhotoRemoved ==
    \A p \in Procs :
        (task[p].kind \in {"submit", "return"} /\ task[p].pc = "done")
            => ~task[p].staged

C27_UploadFailureIsRenderError ==
    \A p \in Procs :
        "pdfupload" \in task[p].errs
            => /\ task[p].pc = "done"
               /\ "render" \in task[p].errs
               /\ task[p].wrote = 0
               /\ task[p].sent = {}

\* C30: no two requests in flight hold the same path in the staging area for
\* their exported artifacts, under any interleaving of Submit, Approve and
\* Return requests.
C30_StagingPathsDistinct ==
    \A p, q \in Procs :
        (p # q /\ task[p].tmp # NoPath /\ task[q].tmp # NoPath)
            => task[p].tmp # task[q].tmp

\* the image passes of a renderer have ended
ImagePassesEnded == probe.fn = "imagePass" /\ probe.pc \in {"export", "failed", "crashed"}

\* index of the first occurrence of token in a text that contains it
FirstOccurrence(text, token) ==
    CHOOSE i \in 1 .. Len(text) :
        /\ SubSeq(text, i, i + Len(token) - 1) = token
        /\ \A k \in 1 .. (i - 1) : SubSeq(text, k, k + Len(token) - 1) # token

\* the edits a renderer issued in one of its passes
EditsOf(pass) == { k \in 1 .. Len(probe.edits) : probe.edits[k].pass = pass }

\* C26: when no collaborator call failed and the token of a requested image
\* pass (<<FOTO>> for a photo of the loan, <<FOTO2>> for a return photo) does
\* not occur in the document, no delete and no insert is issued for it and
\* the render goes on to the export.
C26_AbsentPlaceholderSkipped ==
    (ImagePassesEnded /\ probe.failures = {})
        => /\ (/\ FotoOf(probe.renderer, probe.form) # Empty
               /\ ~Contains(TextOf(probe.template), KeyFOTO))
                 => (EditsOf("FOTO") = {} /\ probe.pc = "export")
           /\ (/\ probe.renderer = "return"
               /\ probe.form.FotoPath # Empty
               /\ ~Contains(TextOf(probe.template), KeyFOTO2))
                 => (EditsOf("FOTO2") = {} /\ probe.pc = "export")

\* C28: when a photo of the loan is to be embedded, the document was fetched
\* and <<FOTO>> occurs in it, the pass deletes exactly the span of the first
\* occurrence of the token in document order and inserts the image at its
\* first character.
C28_ImageReplacesFirstToken ==
    (/\ ImagePassesEnded
     /\ FotoOf(probe.renderer, probe.form) # Empty
     /\ "get" \notin probe.failures
     /\ Contains(TextOf(probe.template), KeyFOTO))
        => \E k \in EditsOf("FOTO") :
              LET at == FirstOccurrence(TextOf(probe.template), KeyFOTO) IN
              /\ probe.edits[k].StartIndex = at
              /\ probe.edits[k].EndIndex = at + Len(KeyFOTO)
              /\ probe.edits[k].Index = at

\* C29: in the return renderer, when no collaborator call failed, a return
\* photo is present and <<FOTO2>> occurs in the template, the return photo is
\* embedded, whether or not the LoanRecord has a photo.
C29_ReturnPhotoEmbedded ==
    (/\ ImagePassesEnded /\ probe.renderer = "return"
     /\ probe.failures = {}
     /\ probe.form.FotoPath # Empty
     /\ Contains(TextOf(probe.template), KeyFOTO2))
        => \E k \in EditsOf("FOTO2") : probe.edits[k].Uri = probe.form.FotoPath

\* C31: a status-only Approve that reported a failure to its caller has
\* written none of the three cells (status, timestamp, approver name) of the
\* row it resolved.
C31_FailedApproveWroteNothing ==
    \A p \in Procs :
        (task[p].kind = "approve" /\ task[p].resp \in {"400", "500"})
            => task[p].wrote = 0

\* C32: once no request is in flight and every status-only Approve that
\* wrote to a LoanRecord row has been acknowledged, the status cell and the
\* approver-name cell of that row both come from one and the same of these
\* requests.
C32_StatusAndApproverFromOneRequest ==
    LET approves == {p \in Procs : task[p].kind = "approve" /\ task[p].wrote > 0}
    IN  ((\A p \in Procs : task[p].pc \in {"idle", "done"})
            /\ (\A p \in approves : task[p].resp = "ack"))
        => \A i \in {task[p].lrow : p \in approves} :
              \E p \in approves :
                 /\ task[p].lrow = i
                 /\ Cell(loan[i], 17) = task[p].decision
                 /\ Cell(loan[i], 19) = task[p].approver

\* C33: the phone a Submit stores and notifies is the phone field of its own
\* request: the task leaves an empty phone field empty whatever rows the
\* ledger holds, the field is not changed afterwards, the row is written
\* with it in column F, and the submitter send is attempted only when it is
\* not empty.
C33_PhoneFromOwnRequest ==
    [][\A p \in Procs :
          task'[p].kind = "submit"
             => /\ (task[p].pc = "s_task" /\ task[p].form.NoWA = Empty)
                      => task'[p].form.NoWA = Empty
                /\ task[p].pc \notin {"idle", "s_task"}
                      => task'[p].form.NoWA = task[p].form.NoWA
                /\ task'[p].wrote > task[p].wrote
                      => Cell(loan'[task[p].row], 6) = task[p].form.NoWA
                /\ "submitter" \in task'[p].sent
                      => task[p].form.NoWA # Empty
    ]_vars

\* C34: in Submit, document-generating Approve and Return the ledger row is
\* written only after the render has returned success and notifications
\* are sent only after the write has succeeded: a request that has written
\* holds its rendered document, a request that has attempted a send has
\* written, a request whose render failed (or ended the process) or whose
\* write failed has sent nothing, the former having written nothing; no
\* step of a request without its document changes any region of the ledger,
\* and no step of a request that has not written attempts a send.
C34_RenderThenWriteThenNotify ==
    /\ [](\A p \in Procs :
            task[p].kind \in {"submit", "approveNew", "return"}
               => /\ task[p].wrote > 0 => task[p].doc # NoDoc
                  /\ task[p].sent # {} => task[p].wrote > 0
                  /\ task[p].errs \cap {"render", "pdfupload", "docget"} # {}
                        => task[p].wrote = 0 /\ task[p].sent = {}
                  /\ "write" \in task[p].errs
                        => task[p].wrote = 0 /\ task[p].sent = {})
    /\ [][\A p \in Procs :
            (task'[p].kind \in {"submit", "approveNew", "return"}
                /\ task'[p] # task[p])
               => /\ task[p].doc = NoDoc
                        => <<loan, approval, ret>>' = <<loan, approval, ret>>
                  /\ task'[p].sent # task[p].sent => task[p].wrote > 0
         ]_vars

\* C34 witness: the render of one request has failed, and the write of
\* another, whose render succeeded, has failed; neither has written or sent
C34_Witness ==
    \E p, q \in Procs :
        /\ "render" \in task[p].errs /\ task[p].wrote = 0 /\ task[p].sent = {}
        /\ "write" \in task[q].errs /\ task[q].doc # NoDoc
        /\ task[q].wrote = 0 /\ task[q].sent = {}
        /\ task[q].kind \in {"submit", "approveNew", "return"}

\* C35: the name, the phone and the note that a document-generating Approve
\* renders into the approval document are those of the LoanRecord it
\* resolved, as Submit wrote them in columns C, F and K.
C35_ApprovalDocumentCarriesLoanFields ==
    \A p \in Procs :
        (task[p].kind = "approveNew" /\ task[p].found /\ task[p].doc # NoDoc)
            => /\ task[p].doc.NAMA = Cell(loan[task[p].lrow], 3)
               /\ task[p].doc.NO = Cell(loan[task[p].lrow], 6)
               /\ task[p].doc.KET = Cell(loan[task[p].lrow], 11)

=============================================================================
